---- MODULE Spec2Model ----
(***************************************************************************)
(* Instagram DM auto-reply bot: the webhook route (handleWebhook,          *)
(* processWebhookEvent, shouldReplyToMessage), the message parser, the     *)
(* reply generator (generateResponse) and the delivery client              *)
(* (sendMessage), as a state machine over the Node.js event loop.          *)
(***************************************************************************)
EXTENDS Integers, Sequences, FiniteSets, TLC

(***************************************************************************)
(* Bounds of the model.                                                    *)
(***************************************************************************)
\* number of inbound POST /webhook calls
NumEvents == 2

Events == 1..NumEvents

(***************************************************************************)
(* JavaScript values.  A missing property reads as undefined; undefined,   *)
(* null, "" and 0 are falsy.                                               *)
(***************************************************************************)
Undefined == "<undefined>"
Null == "<null>"
\* !v for a string-valued property
Falsy(v) == v \in {Undefined, Null, ""}
\* a missing / null numeric property (timestamps are positive numbers)
UndefinedNum == -1
NullNum == -2
FalsyNum(n) == n \in {UndefinedNum, NullNum, 0}

\* process.env.BOT_INSTAGRAM_ID, read-only after startup
BotInstagramId == "bot_123"

(***************************************************************************)
(* Webhook payloads (req.body).                                            *)
(*   list     : [kind: "absent" | "nonarray" | "array", items: Seq]        *)
(*   message  : [mid, text, attachments: [isArray, length]]                *)
(*   event    : one element of entry.messaging                             *)
(*   change   : one element of entry.changes                               *)
(***************************************************************************)
NoList == [kind |-> "absent", items |-> <<>>]
NotAList == [kind |-> "nonarray", items |-> <<>>]
List(s) == [kind |-> "array", items |-> s]

NoAttachments == [isArray |-> FALSE, length |-> 0]
Attachments(n) == [isArray |-> TRUE, length |-> n]

Msg(mid, text, att) == [mid |-> mid, text |-> text, attachments |-> att]
NoMsg == Msg(Undefined, Undefined, NoAttachments)

\* sub: which sub-object the messaging event carries
\* sender: "<nosender>" when the sender object is missing, else sender.id
NoSender == "<nosender>"
MessagingEvent(sub, msg, sender, ts) ==
    [isNull |-> FALSE, sub |-> sub, msg |-> msg, sender |-> sender,
     timestamp |-> ts]
\* the element messaging[0] is null
NullEvent ==
    [isNull |-> TRUE, sub |-> "unknown", msg |-> NoMsg, sender |-> NoSender,
     timestamp |-> UndefinedNum]

\* hasValue: change.value is truthy; hasMessage: value.message is truthy
Change(field, hasValue, hasMessage, msg, sender, ts) ==
    [isNull |-> FALSE, field |-> field, hasValue |-> hasValue,
     hasMessage |-> hasMessage, msg |-> msg, sender |-> sender,
     timestamp |-> ts]
\* the element changes[0] is null
NullChange ==
    [isNull |-> TRUE, field |-> Undefined, hasValue |-> FALSE,
     hasMessage |-> FALSE, msg |-> NoMsg, sender |-> NoSender,
     timestamp |-> UndefinedNum]

\* isNull: the element entry[0] is null
Entry(messaging, changes) ==
    [isNull |-> FALSE, messaging |-> messaging, changes |-> changes]
NullEntry == [isNull |-> TRUE, messaging |-> NoList, changes |-> NoList]

\* isNull: the body itself is null/undefined
Payload(entry) == [isNull |-> FALSE, entry |-> entry]
NullPayload == [isNull |-> TRUE, entry |-> NoList]

(***************************************************************************)
(* Parsed message records; InvalidParse is the null result.                *)
(***************************************************************************)
InvalidParse ==
    [valid |-> FALSE, senderId |-> Undefined, messageText |-> Null,
     hasAttachments |-> FALSE, timestamp |-> UndefinedNum,
     messageId |-> Undefined]

ParsedMessage(senderId, messageText, hasAttachments, timestamp, messageId) ==
    [valid |-> TRUE, senderId |-> senderId, messageText |-> messageText,
     hasAttachments |-> hasAttachments, timestamp |-> timestamp,
     messageId |-> messageId]

\* sender?.id
SenderIdOf(sender) == IF sender = NoSender THEN Undefined ELSE sender

\* variant: the text is not extracted
TextDropped(text) == Null

\* variant: a missing text becomes the empty string
TextOrEmpty(text) == IF Falsy(text) THEN "" ELSE text

\* variant: only a missing text becomes null
TextOrNullIfUndefined(text) == IF text = Undefined THEN Null ELSE text

\* message.text || null
TextOrNull(text) == IF Falsy(text) THEN Null ELSE text

\* variant: any list of attachments counts, the empty one included
HasAttachmentsAnyList(att) == att.isArray

\* Array.isArray(message.attachments) && message.attachments.length > 0
HasAttachments(att) == att.isArray /\ att.length > 0

\* !list || !Array.isArray(list) || list.length === 0
EmptyOrMissing(list) == list.kind # "array" \/ Len(list.items) = 0

\* variant: the last element of the list is taken
LastItem(list) == list.items[Len(list.items)]

\* list[0]
FirstItem(list) == list.items[1]

\* a timestamp sent as a string of decimal digits (a truthy value that is
\* not a number): the string of n is encoded below the markers of
\* undefined and null
DigitString(n) == -10 - n
IsDigitString(v) == v <= -10

\* parseInt of a number with an integer value, or of a string of digits
parseInt(v) == IF IsDigitString(v) THEN -10 - v ELSE v

\* value.timestamp ? parseInt(value.timestamp) : null
ChangeTimestamp(ts) == IF FalsyNum(ts) THEN NullNum ELSE parseInt(ts)

\* variant: an edited message is not a message
CarriesMessageNoEdit(ev) == ev.sub = "message"

\* messagingEvent.message || messagingEvent.message_edit
CarriesMessage(ev) == ev.sub \in {"message", "message_edit"}

\* how the body of a try block ends: it returns a value, or it throws
Returned(v) == [threw |-> FALSE, value |-> v]
Thrown == [threw |-> TRUE, value |-> InvalidParse]

\* variant: the sender id is not validated
ExtractMessageNoSenderCheck(senderId, hasMessage, message, timestamp) ==
    IF ~hasMessage \/ Falsy(message.mid)
    THEN InvalidParse
    ELSE ParsedMessage(senderId, TextOrNull(message.text),
                       HasAttachments(message.attachments), timestamp,
                       message.mid)

\* the validation and extraction tail of the dual-format parser
ExtractMessage(senderId, hasMessage, message, timestamp) ==
    IF Falsy(senderId) \/ ~hasMessage \/ Falsy(message.mid)
    THEN InvalidParse
    ELSE ParsedMessage(senderId, TextOrNull(message.text),
                       HasAttachments(message.attachments), timestamp,
                       message.mid)

\* variant: the field discriminator is not tested
IgnoredChangeAnyField(change) == ~change.hasValue

\* change.field !== 'messages' || !change.value
IgnoredChange(change) == change.field # "messages" \/ ~change.hasValue

\* variant: the changes list is also tried when the messaging list holds
\* something that is not a message
parseWebhookEventTryBothShapes(payload) ==
    IF payload.isNull \/ EmptyOrMissing(payload.entry)
    THEN Returned(InvalidParse)
    ELSE LET entry == payload.entry.items[1] IN
      IF entry.isNull THEN Thrown
      ELSE IF /\ ~EmptyOrMissing(entry.messaging)
              /\ \/ entry.messaging.items[1].isNull
                 \/ entry.messaging.items[1].sub \in
                      {"message", "message_edit"}
                 \/ EmptyOrMissing(entry.changes)
      THEN
        LET ev == entry.messaging.items[1] IN
        IF ev.isNull THEN Thrown
        ELSE IF ev.sub \in {"message", "message_edit"}
        THEN Returned(ExtractMessage(SenderIdOf(ev.sender), TRUE, ev.msg,
                                     ev.timestamp))
        ELSE Returned(InvalidParse)
      ELSE IF ~EmptyOrMissing(entry.changes) THEN
        LET change == entry.changes.items[1] IN
        IF change.isNull THEN Thrown
        ELSE IF IgnoredChange(change)
        THEN Returned(InvalidParse)
        ELSE Returned(ExtractMessage(SenderIdOf(change.sender),
                                     change.hasMessage, change.msg,
                                     ChangeTimestamp(change.timestamp)))
      ELSE Returned(InvalidParse)

\* the try block of the dual-format parser (messaging list, then changes
\* list); reading a property of a null entry, event or change throws
parseWebhookEventTry(payload) ==
    IF payload.isNull \/ EmptyOrMissing(payload.entry)
    THEN Returned(InvalidParse)
    ELSE LET entry == FirstItem(payload.entry) IN
      IF entry.isNull THEN Thrown
      ELSE IF ~EmptyOrMissing(entry.messaging) THEN
        LET ev == FirstItem(entry.messaging) IN
        IF ev.isNull THEN Thrown
        ELSE IF CarriesMessage(ev)
        THEN Returned(ExtractMessage(SenderIdOf(ev.sender), TRUE, ev.msg,
                                     ev.timestamp))
        ELSE Returned(InvalidParse)
      ELSE IF ~EmptyOrMissing(entry.changes) THEN
        LET change == FirstItem(entry.changes) IN
        IF change.isNull THEN Thrown
        ELSE IF IgnoredChange(change)
        THEN Returned(InvalidParse)
        ELSE Returned(ExtractMessage(SenderIdOf(change.sender),
                                     change.hasMessage, change.msg,
                                     ChangeTimestamp(change.timestamp)))
      ELSE Returned(InvalidParse)

\* the try block of the messaging-only parser
parseWebhookEventMessagingTry(payload) ==
    IF payload.isNull \/ EmptyOrMissing(payload.entry)
    THEN Returned(InvalidParse)
    ELSE LET entry == FirstItem(payload.entry) IN
      IF entry.isNull THEN Thrown
      ELSE IF EmptyOrMissing(entry.messaging) THEN Returned(InvalidParse)
      ELSE LET ev == FirstItem(entry.messaging) IN
        IF ev.isNull THEN Thrown
        ELSE IF ev.sub # "message" THEN Returned(InvalidParse)
        ELSE IF Falsy(SenderIdOf(ev.sender)) THEN Returned(InvalidParse)
        ELSE IF FalsyNum(ev.timestamp) THEN Returned(InvalidParse)
        ELSE IF Falsy(ev.msg.mid) THEN Returned(InvalidParse)
        ELSE Returned(ParsedMessage(SenderIdOf(ev.sender),
                                    TextOrNull(ev.msg.text),
                                    HasAttachments(ev.msg.attachments),
                                    ev.timestamp, ev.msg.mid))

\* variant: no catch block, the exception leaves the parser
ParseNoCatch(t) == t

\* catch (error): the error is logged and null is returned
ParseCatch(t) == IF t.threw THEN Returned(InvalidParse) ELSE t

\* variant: an empty record is returned where null is meant
parseWebhookEventEmptyRecord(payload) ==
    LET v == ParseCatch(parseWebhookEventTry(payload)).value IN
    IF v.valid THEN v
    ELSE ParsedMessage(Undefined, Null, FALSE, UndefinedNum, Undefined)

\* the dual-format parser
parseWebhookEvent(payload) == ParseCatch(parseWebhookEventTry(payload)).value

\* the messaging-only parser
parseWebhookEventMessaging(payload) ==
    ParseCatch(parseWebhookEventMessagingTry(payload)).value

\* the try block of the parser of a module
ParseTry(module, payload) ==
    IF module = "dual" THEN parseWebhookEventTry(payload)
    ELSE parseWebhookEventMessagingTry(payload)

\* require('../utils/messageParser'): the repository carries both parsers
ParserModules == {"dual", "messaging"}
Parse(module, payload) ==
    IF module = "dual" THEN parseWebhookEvent(payload)
    ELSE parseWebhookEventMessaging(payload)

\* the first entry is null: reading entry.messaging throws inside the
\* parser's try block
ParserThrows(payload) ==
    /\ ~payload.isNull
    /\ ~EmptyOrMissing(payload.entry)
    /\ FirstItem(payload.entry).isNull

\* what the parser itself writes to the log: [level, message] pairs
ParserLog(module, payload) ==
    IF payload.isNull \/ EmptyOrMissing(payload.entry) THEN <<>>
    ELSE IF ParseTry(module, payload).threw
      THEN <<[level |-> "ERROR", message |-> "Error parsing webhook event"]>>
    ELSE LET entry == FirstItem(payload.entry) IN
      IF ~EmptyOrMissing(entry.messaging) THEN
        LET ev == FirstItem(entry.messaging) IN
        IF ev.sub = "message" THEN <<>>
        ELSE IF ev.sub = "message_edit" /\ module = "dual"
          THEN <<[level |-> "DEBUG", message |-> "Processing edited message"]>>
        ELSE <<[level |-> "DEBUG", message |-> "Ignoring non-message event"]>>
      ELSE IF module = "dual" /\ ~EmptyOrMissing(entry.changes) THEN
        LET change == FirstItem(entry.changes) IN
        IF IgnoredChange(change)
        THEN <<[level |-> "DEBUG",
                message |-> "Ignoring non-message change"]>>
        ELSE <<>>
      ELSE <<>>

(***************************************************************************)
(* Eligibility filter.  FilterReason is the rule that rejects, "pass" when *)
(* none does.                                                              *)
(***************************************************************************)
\* variant: the echo-prevention rule is missing
FilterReasonNoEcho(parsedMessage, botInstagramId) ==
    IF ~parsedMessage.valid THEN "parsedMessage is null"
    ELSE IF parsedMessage.messageText = Null THEN "messageText is null"
    ELSE IF parsedMessage.hasAttachments = TRUE
      THEN "message has attachments"
    ELSE "pass"

\* variant: the attachment rule is evaluated before the text rule
FilterReasonAttachmentsFirst(parsedMessage, botInstagramId) ==
    IF ~parsedMessage.valid THEN "parsedMessage is null"
    ELSE IF parsedMessage.hasAttachments = TRUE
      THEN "message has attachments"
    ELSE IF parsedMessage.messageText = Null THEN "messageText is null"
    ELSE IF parsedMessage.senderId = botInstagramId
      THEN "sender is bot (echo prevention)"
    ELSE "pass"

\* the platform's reply window, in hours; timestamps count hours
ReplyWindow == 24

\* the time at which the events are processed: the messages stamped 1700
\* are then 101 hours old, the one stamped 1800 is one hour old
ProcessingTime == 1800 + 1

\* a message with this timestamp lies outside the reply window
OutsideReplyWindow(timestamp) ==
    timestamp > 0 /\ ProcessingTime - timestamp > ReplyWindow

\* variant: a fifth rule rejects messages outside the reply window
FilterReasonWithWindow(parsedMessage, botInstagramId) ==
    IF ~parsedMessage.valid THEN "parsedMessage is null"
    ELSE IF parsedMessage.messageText = Null THEN "messageText is null"
    ELSE IF parsedMessage.hasAttachments = TRUE
      THEN "message has attachments"
    ELSE IF parsedMessage.senderId = botInstagramId
      THEN "sender is bot (echo prevention)"
    ELSE IF OutsideReplyWindow(parsedMessage.timestamp)
      THEN "outside reply window"
    ELSE "pass"

\* variant: the echo rule compares the message id with the bot's id
FilterReasonEchoById(parsedMessage, botInstagramId) ==
    IF ~parsedMessage.valid THEN "parsedMessage is null"
    ELSE IF parsedMessage.messageText = Null THEN "messageText is null"
    ELSE IF parsedMessage.hasAttachments = TRUE
      THEN "message has attachments"
    ELSE IF parsedMessage.messageId = botInstagramId
      THEN "sender is bot (echo prevention)"
    ELSE "pass"

FilterReason(parsedMessage, botInstagramId) ==
    IF ~parsedMessage.valid THEN "parsedMessage is null"
    ELSE IF parsedMessage.messageText = Null THEN "messageText is null"
    ELSE IF parsedMessage.hasAttachments = TRUE
      THEN "message has attachments"
    ELSE IF parsedMessage.senderId = botInstagramId
      THEN "sender is bot (echo prevention)"
    ELSE "pass"

\* variant: every message that parsed is answered
shouldReplyToMessageAnyValid(parsedMessage, botInstagramId) ==
    parsedMessage.valid

shouldReplyToMessage(parsedMessage, botInstagramId) ==
    FilterReason(parsedMessage, botInstagramId) = "pass"

(***************************************************************************)
(* Reply generator (generateResponse).  The outcome of the HTTP call to    *)
(* the text-generation service: a 2xx response with a first choice, a 2xx  *)
(* response without one (reading choices[0] throws), or a rejected call    *)
(* (status 0: no response, timeout).  Text is a sequence of characters.    *)
(***************************************************************************)
AIOk(content) == [kind |-> "ok", content |-> content, status |-> 200]
AIMalformed == [kind |-> "malformed", content |-> <<>>, status |-> 200]
AIError(status) == [kind |-> "error", content |-> <<>>, status |-> status]
NoAIResult == [kind |-> "none", content |-> <<>>, status |-> 0]

AIResults ==
    { AIOk(<<" ", "h", "e", "y", "\n">>), AIMalformed, AIError(0),
      AIError(429) }

IsSpace(c) == c \in {" ", "\n", "\t"}

RECURSIVE TrimStart(_)
TrimStart(s) ==
    IF s = <<>> THEN <<>>
    ELSE IF IsSpace(Head(s)) THEN TrimStart(Tail(s)) ELSE s

RECURSIVE TrimEnd(_)
TrimEnd(s) ==
    IF s = <<>> THEN <<>>
    ELSE IF IsSpace(s[Len(s)]) THEN TrimEnd(SubSeq(s, 1, Len(s) - 1)) ELSE s

\* String.prototype.trim
Trim(s) == TrimEnd(TrimStart(s))

GenerateFailure == "Failed to generate AI response"

\* variant: a failure is swallowed and an empty reply is returned
generateResponseFallback(r) ==
    IF r.kind = "ok"
    THEN [threw |-> FALSE, value |-> Trim(r.content), message |-> ""]
    ELSE [threw |-> FALSE, value |-> <<>>, message |-> ""]

\* what generateResponse does once its HTTP call has settled with r
generateResponse(r) ==
    IF r.kind = "ok"
    THEN [threw |-> FALSE, value |-> Trim(r.content), message |-> ""]
    ELSE [threw |-> TRUE, value |-> <<>>, message |-> GenerateFailure]

(***************************************************************************)
(* Delivery client (sendMessage).  The outcome of one HTTP attempt: a 2xx  *)
(* response whose data carries message_id and/or id, or a rejection.  A    *)
(* rejection carries a response (with its status, and possibly the         *)
(* platform's error message) only when the server answered with a non-2xx  *)
(* status; timeouts and connection failures carry an error code and no     *)
(* response.                                                               *)
(***************************************************************************)
SendOk(message_id, id) ==
    [kind |-> "ok", message_id |-> message_id, id |-> id,
     hasResponse |-> TRUE, status |-> 200, code |-> Undefined,
     apiMessage |-> Undefined, message |-> Undefined]

SendError(hasResponse, status, code, apiMessage, message) ==
    [kind |-> "error", message_id |-> Undefined, id |-> Undefined,
     hasResponse |-> hasResponse, status |-> status, code |-> code,
     apiMessage |-> apiMessage, message |-> message]

SendResults ==
    { SendOk("mid.1", Undefined), SendOk(Undefined, "id.2"),
      SendError(FALSE, 0, "ETIMEDOUT", Undefined, "Network timeout"),
      SendError(TRUE, 400, "ERR_BAD_REQUEST", "Invalid recipient ID",
                "Request failed with status code 400"),
      SendError(TRUE, 500, "ERR_BAD_RESPONSE", Undefined,
                "Request failed with status code 500") }

maxRetries == 1

\* variant: any error status is taken for a network error
isNetworkErrorByStatus(error) ==
    ~error.hasResponse \/ error.status >= 400 \/ error.code = "ECONNABORTED"
        \/ error.code = "ETIMEDOUT"

\* variant: a server-error answer is taken for a network error as well
isNetworkErrorOrServerError(error) ==
    ~error.hasResponse \/ error.status >= 500 \/ error.code = "ECONNABORTED"
        \/ error.code = "ETIMEDOUT"

isNetworkError(error) ==
    ~error.hasResponse \/ error.code = "ECONNABORTED"
        \/ error.code = "ETIMEDOUT"

is4xxError(error) ==
    error.hasResponse /\ error.status >= 400 /\ error.status < 500

\* variant: every failed attempt is retried while the budget lasts
ShouldRetryAnyError(error, attempt) == attempt < maxRetries

\* Retry only on network errors
ShouldRetry(error, attempt) == isNetworkError(error) /\ attempt < maxRetries

\* response.data.message_id || response.data.id
ResponseMessageId(r) == IF Falsy(r.message_id) THEN r.id ELSE r.message_id

\* variant: the transport error's message comes first
errorMessageTransportFirst(error) ==
    IF ~Falsy(error.message) THEN error.message
    ELSE IF ~Falsy(error.apiMessage) THEN error.apiMessage
    ELSE "Unknown error"

\* error.response?.data?.error?.message || error.message || 'Unknown error'
errorMessage(error) ==
    IF ~Falsy(error.apiMessage) THEN error.apiMessage
    ELSE IF ~Falsy(error.message) THEN error.message
    ELSE "Unknown error"

NoSendResult == [settled |-> FALSE, success |-> FALSE, messageId |-> Undefined,
                 error |-> Undefined]
SendSuccess(messageId) ==
    [settled |-> TRUE, success |-> TRUE, messageId |-> messageId,
     error |-> Undefined]
\* variant: the failure is thrown instead of being returned
SendFailureThrown(error) ==
    [settled |-> FALSE, success |-> FALSE, messageId |-> Undefined,
     error |-> error]

SendFailure(error) ==
    [settled |-> TRUE, success |-> FALSE, messageId |-> Undefined,
     error |-> error]

(***************************************************************************)
(* Log entries written by logger.debug / info / error.                     *)
(***************************************************************************)
LogEntry(level, message, messageId, senderId, detail) ==
    [level |-> level, message |-> message, messageId |-> messageId,
     senderId |-> senderId, detail |-> detail]

(***************************************************************************)
(* Payloads the webhook receives in the pipeline specification.            *)
(***************************************************************************)
MessagingPayload(ev) == Payload(List(<<Entry(List(<<ev>>), NoList)>>))
ChangesPayload(ch) == Payload(List(<<Entry(NoList, List(<<ch>>))>>))

PipelinePayloads ==
    { NullPayload,
      Payload(List(<<NullEntry>>)),
      MessagingPayload(MessagingEvent("read", NoMsg, "U1", 1700)),
      MessagingPayload(MessagingEvent("message",
          Msg("m1", "hi", NoAttachments), "U1", 1700)),
      MessagingPayload(MessagingEvent("message",
          Msg("m2", "hi", NoAttachments), BotInstagramId, 1700)),
      MessagingPayload(MessagingEvent("message",
          Msg("m3", "look", Attachments(1)), "U1", 1700)),
      MessagingPayload(MessagingEvent("message",
          Msg("m4", Undefined, NoAttachments), "U1", 1700)),
      ChangesPayload(Change("messages", TRUE, TRUE,
          Msg("m6", "yo", NoAttachments), "U2", 1800)) }

(***************************************************************************)
(* State.  One pipeline run per inbound POST, indexed by Events.           *)
(***************************************************************************)
VARIABLES
    parserModule,    \* the parser module the route loads
    pc,              \* position of each run: idle, queued, awaitAI,
                     \*   awaitSend, done
    payload,         \* req.body of each call
    status,          \* status sent on res, 0 while no response was sent
    immediateQueue,  \* callbacks scheduled with setImmediate, in order
    parsed,          \* parsedMessage of each run
    genArgs,         \* arguments of the generateResponse calls of each run
    aiResult,        \* how the generator's HTTP call settled
    aiResponse,      \* the text generateResponse returned
    sendArgs,        \* arguments of the sendMessage calls of each run
    attempt,         \* sendMessage's attempt counter
    posts,           \* how each delivery HTTP attempt settled, in order
    result,          \* the value sendMessage returned
    log,             \* log entries written by each run
    trace,           \* the steps of each call and run, in order
    outcome,         \* terminal outcome of each run
    promise,         \* state of the promise processWebhookEvent returned
    call             \* a direct call of one function: its arguments and,
                     \*   once it has returned, its result

vars == <<call, parserModule, pc, payload, status, immediateQueue, parsed, genArgs,
          aiResult, aiResponse, sendArgs, attempt, posts, result, log, trace,
          outcome, promise>>

\* no function is called directly
NoCall == [fn |-> "none"]

\* the state of the webhook pipeline
pipelineVars ==
    <<parserModule, pc, payload, status, immediateQueue, parsed, genArgs,
      aiResult, aiResponse, sendArgs, attempt, posts, result, log, trace,
      outcome, promise>>

\* no POST has been received
NoRequests ==
    /\ pc = [e \in Events |-> "idle"]
    /\ payload = [e \in Events |-> NullPayload]
    /\ status = [e \in Events |-> 0]
    /\ immediateQueue = <<>>
    /\ parsed = [e \in Events |-> InvalidParse]
    /\ genArgs = [e \in Events |-> <<>>]
    /\ aiResult = [e \in Events |-> NoAIResult]
    /\ aiResponse = [e \in Events |-> <<>>]
    /\ sendArgs = [e \in Events |-> <<>>]
    /\ attempt = [e \in Events |-> 0]
    /\ posts = [e \in Events |-> <<>>]
    /\ result = [e \in Events |-> NoSendResult]
    /\ log = [e \in Events |-> <<>>]
    /\ trace = [e \in Events |-> <<>>]
    /\ outcome = [e \in Events |-> "none"]
    /\ promise = [e \in Events |-> "none"]

Init ==
    /\ parserModule \in ParserModules
    /\ call = NoCall
    /\ NoRequests

(***************************************************************************)
(* processWebhookEvent, from its call to its first await or return.        *)
(***************************************************************************)
\* variant: the acknowledgment depends on the body
AckStatusValidOnly(body) == IF body.isNull THEN 400 ELSE 200

\* the status handleWebhook sends for a body
AckStatus(body) == 200

\* the log entries of shouldReplyToMessage
FilterLog(pm, botInstagramId) ==
    LET reason == FilterReason(pm, botInstagramId) IN
    IF reason = "pass"
    THEN <<LogEntry("DEBUG", "Message passed all filters, will reply",
                    pm.messageId, pm.senderId, "")>>
    ELSE IF reason = "parsedMessage is null"
    THEN <<LogEntry("DEBUG", "Filtering message: parsedMessage is null",
                    Undefined, Undefined, "")>>
    ELSE <<LogEntry("DEBUG", "Filtering message: " \o reason, pm.messageId,
                    pm.senderId, "")>>

\* steps 1 and 2, and the call of generateResponse: the record of what the
\* run has done when it first yields
PipelineStart(module, body) ==
    LET pm == Parse(module, body)
        plog == ParserLog(module, body)
        received == <<LogEntry("DEBUG", "Received webhook event",
                               Undefined, Undefined, "")>> \o
                    [i \in 1..Len(plog) |->
                       LogEntry(plog[i].level, plog[i].message, Undefined,
                                Undefined, "")]
    IN
    IF ~pm.valid THEN
      [pc |-> "done", parsed |-> pm, outcome |-> "ignored",
       promise |-> "resolved", genArgs |-> <<>>,
       steps |-> <<"parse", "return">>,
       log |-> received \o
         <<LogEntry("DEBUG",
                    "Failed to parse message - invalid payload structure",
                    Undefined, Undefined, "")>>]
    ELSE IF ~shouldReplyToMessage(pm, BotInstagramId) THEN
      [pc |-> "done", parsed |-> pm, outcome |-> "filtered",
       promise |-> "resolved", genArgs |-> <<>>,
       steps |-> <<"parse", "filter", "return">>,
       log |-> received \o
         <<LogEntry("DEBUG", "Parsed message successfully", pm.messageId,
                    pm.senderId, pm.messageText)>> \o
         FilterLog(pm, BotInstagramId) \o
         <<LogEntry("DEBUG", "Message filtered - no reply needed",
                    pm.messageId, pm.senderId, "")>>]
    ELSE
      [pc |-> "awaitAI", parsed |-> pm, outcome |-> "none",
       promise |-> "pending", genArgs |-> <<pm.messageText>>,
       steps |-> <<"parse", "filter", "generateResponse">>,
       log |-> received \o
         <<LogEntry("DEBUG", "Parsed message successfully", pm.messageId,
                    pm.senderId, pm.messageText)>> \o
         FilterLog(pm, BotInstagramId) \o
         <<LogEntry("DEBUG", "Message passed filters", pm.messageId,
                    pm.senderId, ""),
           LogEntry("DEBUG", "Generating AI response", Undefined, Undefined,
                    "")>>]

\* variant: processWebhookEvent(req.body) is called directly, before the
\* response is sent
handleWebhookInline(e, body) ==
    /\ pc[e] = "idle"
    /\ payload' = [payload EXCEPT ![e] = body]
    /\ status' = [status EXCEPT ![e] = AckStatus(body)]
    /\ LET r == PipelineStart(parserModule, body) IN
       /\ pc' = [pc EXCEPT ![e] = r.pc]
       /\ parsed' = [parsed EXCEPT ![e] = r.parsed]
       /\ outcome' = [outcome EXCEPT ![e] = r.outcome]
       /\ promise' = [promise EXCEPT ![e] = r.promise]
       /\ genArgs' = [genArgs EXCEPT ![e] = @ \o r.genArgs]
       /\ log' = [log EXCEPT ![e] = @ \o r.log]
       /\ trace' = [trace EXCEPT ![e] = @ \o r.steps \o <<"sendStatus">>]
    /\ UNCHANGED <<call, parserModule, immediateQueue, aiResult, aiResponse,
                   sendArgs, attempt, posts, result>>

\* variant: the acknowledgment is sent and the processing is never
\* scheduled
handleWebhookNoSchedule(e, body) ==
    /\ pc[e] = "idle"
    /\ payload' = [payload EXCEPT ![e] = body]
    /\ status' = [status EXCEPT ![e] = AckStatus(body)]
    /\ trace' = [trace EXCEPT ![e] = @ \o <<"sendStatus">>]
    /\ pc' = [pc EXCEPT ![e] = "queued"]
    /\ UNCHANGED <<call, parserModule, immediateQueue, parsed, genArgs,
                   aiResult, aiResponse, sendArgs, attempt, posts, result,
                   log, outcome, promise>>

\* the order of the two statements of handleWebhook
handleWebhookSteps == <<"sendStatus", "setImmediate">>

\* POST /webhook
handleWebhook(e, body) ==
    /\ pc[e] = "idle"
    /\ payload' = [payload EXCEPT ![e] = body]
    /\ status' = [status EXCEPT ![e] = AckStatus(body)]
    /\ trace' = [trace EXCEPT ![e] = @ \o handleWebhookSteps]
    /\ immediateQueue' = Append(immediateQueue, e)
    /\ pc' = [pc EXCEPT ![e] = "queued"]
    /\ UNCHANGED <<call, parserModule, parsed, genArgs, aiResult, aiResponse,
                   sendArgs, attempt, posts, result, log, outcome, promise>>

\* the setImmediate callback: processWebhookEvent(req.body) up to its first
\* await
processWebhookEvent(e) ==
    /\ immediateQueue # <<>>
    /\ e = Head(immediateQueue)
    /\ immediateQueue' = Tail(immediateQueue)
    /\ LET r == PipelineStart(parserModule, payload[e]) IN
       /\ pc' = [pc EXCEPT ![e] = r.pc]
       /\ parsed' = [parsed EXCEPT ![e] = r.parsed]
       /\ outcome' = [outcome EXCEPT ![e] = r.outcome]
       /\ promise' = [promise EXCEPT ![e] = r.promise]
       /\ genArgs' = [genArgs EXCEPT ![e] = @ \o r.genArgs]
       /\ log' = [log EXCEPT ![e] = @ \o r.log]
       /\ trace' = [trace EXCEPT ![e] = @ \o r.steps]
    /\ UNCHANGED <<call, parserModule, payload, status, aiResult, aiResponse,
                   sendArgs, attempt, posts, result>>

(***************************************************************************)
(* processWebhookEvent after the generator call has settled.               *)
(***************************************************************************)
\* variant: the reply is addressed with the message id
SendMessageArgsWrongRecipient(pm, text) ==
    [recipientId |-> pm.messageId, messageText |-> text]

\* the arguments of the sendMessage call
SendMessageArgs(pm, text) == [recipientId |-> pm.senderId, messageText |-> text]

\* variant: no catch block, the error propagates out of the async function
processWebhookEventRethrow(pm, message) ==
    [promise |-> "rejected", outcome |-> "generator-failed",
     schedule |-> FALSE, log |-> <<>>]

\* variant: the catch block logs without the ids of the run
processWebhookEventCatchNoContext(pm, message) ==
    [promise |-> "resolved", outcome |-> "generator-failed",
     schedule |-> FALSE,
     log |-> <<LogEntry("ERROR", "Error processing message", "unknown",
                        "unknown", message)>>]

\* variant: the catch block schedules the event again
processWebhookEventCatchRequeue(pm, message) ==
    [promise |-> "resolved", outcome |-> "generator-failed",
     schedule |-> TRUE,
     log |-> <<LogEntry("ERROR", "Error processing message", pm.messageId,
                        pm.senderId, message)>>]

\* the catch block of processWebhookEvent: the error is logged with the ids
\* of the run and the function returns; nothing is scheduled
processWebhookEventCatch(pm, message) ==
    [promise |-> "resolved", outcome |-> "generator-failed",
     schedule |-> FALSE,
     log |-> <<LogEntry("ERROR", "Error processing message", pm.messageId,
                        pm.senderId, message)>>]

\* the generator's HTTP call of run e settles with r
generateResponseSettles(e, r) ==
    /\ pc[e] = "awaitAI"
    /\ aiResult' = [aiResult EXCEPT ![e] = r]
    /\ LET g == generateResponse(r)
           pm == parsed[e]
       IN
       IF ~g.threw THEN
         LET args == SendMessageArgs(pm, g.value) IN
         /\ aiResponse' = [aiResponse EXCEPT ![e] = g.value]
         /\ sendArgs' = [sendArgs EXCEPT ![e] = Append(@, args)]
         /\ attempt' = [attempt EXCEPT ![e] = 0]
         /\ log' = [log EXCEPT ![e] = @ \o
              <<LogEntry("DEBUG", "AI response generated successfully",
                         Undefined, Undefined, ""),
                LogEntry("INFO", "Generated AI response", pm.messageId,
                         pm.senderId, ""),
                LogEntry("DEBUG", "Sending message via Instagram API",
                         Undefined, Undefined, args.recipientId)>>]
         /\ trace' = [trace EXCEPT ![e] = @ \o <<"sendMessage", "post">>]
         /\ pc' = [pc EXCEPT ![e] = "awaitSend"]
         /\ UNCHANGED <<outcome, promise, immediateQueue>>
       ELSE
         LET c == processWebhookEventCatch(pm, g.message) IN
         /\ log' = [log EXCEPT ![e] = @ \o
              <<LogEntry("ERROR", "Failed to generate AI response",
                         Undefined, Undefined, "")>> \o c.log]
         /\ trace' = [trace EXCEPT ![e] = @ \o <<"catch", "return">>]
         /\ outcome' = [outcome EXCEPT ![e] = c.outcome]
         /\ promise' = [promise EXCEPT ![e] = c.promise]
         /\ immediateQueue' = IF c.schedule THEN Append(immediateQueue, e)
                              ELSE immediateQueue
         /\ pc' = [pc EXCEPT ![e] = IF c.schedule THEN "queued" ELSE "done"]
         /\ UNCHANGED <<aiResponse, sendArgs, attempt>>
    /\ UNCHANGED <<call, parserModule, payload, status, parsed, genArgs, posts,
                   result>>

(***************************************************************************)
(* sendMessage and the end of processWebhookEvent.                         *)
(***************************************************************************)
\* variant: the attempt counter is shared by all sendMessage calls
AttemptShared(e) ==
    CHOOSE n \in {attempt[x] : x \in Events} :
        \A x \in Events : attempt[x] <= n

\* sendMessage's local attempt counter
AttemptOf(e) == attempt[e]

\* step 4's handling of the value sendMessage returned
DeliveryOutcome(pm, res) ==
    IF res.success
    THEN [outcome |-> "delivered",
          log |-> <<LogEntry("INFO", "Message processed successfully",
                             pm.messageId, pm.senderId, res.messageId)>>]
    ELSE [outcome |-> "delivery-failed",
          log |-> <<LogEntry("ERROR", "Failed to send reply", pm.messageId,
                             pm.senderId, res.error)>>]

\* sendMessage returns res to run e, which logs the outcome and ends
SendMessageReturns(e, res, sendLog) ==
    LET d == DeliveryOutcome(parsed[e], res) IN
    /\ result' = [result EXCEPT ![e] = res]
    /\ log' = [log EXCEPT ![e] = @ \o sendLog \o d.log]
    /\ trace' = [trace EXCEPT ![e] = @ \o <<"return">>]
    /\ outcome' = [outcome EXCEPT ![e] = d.outcome]
    /\ promise' = [promise EXCEPT ![e] = "resolved"]
    /\ pc' = [pc EXCEPT ![e] = "done"]
    /\ UNCHANGED attempt

\* a delivery HTTP attempt of run e settles with r
sendMessageSettles(e, r) ==
    /\ pc[e] = "awaitSend"
    /\ posts' = [posts EXCEPT ![e] = Append(@, r)]
    /\ LET recipientId == sendArgs[e][Len(sendArgs[e])].recipientId
           errorLog == <<LogEntry("ERROR", "Instagram API error", Undefined,
                                  Undefined, recipientId)>>
       IN
       IF r.kind = "ok" THEN
         SendMessageReturns(e, SendSuccess(ResponseMessageId(r)),
           <<LogEntry("INFO", "Message sent successfully via Instagram API",
                      Undefined, Undefined, recipientId)>>)
       ELSE IF ShouldRetry(r, AttemptOf(e)) THEN
         IF AttemptOf(e) + 1 <= maxRetries THEN
           /\ attempt' = [attempt EXCEPT ![e] = AttemptOf(e) + 1]
           /\ log' = [log EXCEPT ![e] = @ \o errorLog \o
                <<LogEntry("DEBUG",
                     "Retrying Instagram API call due to network error",
                     Undefined, Undefined, recipientId),
                  LogEntry("DEBUG", "Sending message via Instagram API",
                           Undefined, Undefined, recipientId)>>]
           /\ trace' = [trace EXCEPT ![e] = @ \o <<"post">>]
           /\ UNCHANGED <<pc, result, outcome, promise>>
         ELSE
           SendMessageReturns(e, SendFailure("Max retries exceeded"),
                              errorLog)
       ELSE
         SendMessageReturns(e, SendFailure(errorMessage(r)), errorLog)
    /\ UNCHANGED <<call, parserModule, payload, status, immediateQueue, parsed,
                   genArgs, aiResult, aiResponse, sendArgs>>

Next ==
    \/ \E e \in Events, body \in PipelinePayloads : handleWebhook(e, body)
    \/ \E e \in Events : processWebhookEvent(e)
    \/ \E e \in Events, r \in AIResults : generateResponseSettles(e, r)
    \/ \E e \in Events, r \in SendResults : sendMessageSettles(e, r)

Spec == Init /\ [][Next]_vars

(***************************************************************************)
(* Properties.                                                             *)
(***************************************************************************)
\* the steps that belong to the pipeline (processWebhookEvent and callees)
PipelineSteps ==
    {"parse", "filter", "generateResponse", "sendMessage", "post", "catch",
     "return"}

\* number of elements of s that equal x
RECURSIVE Count(_, _)
Count(s, x) ==
    IF s = <<>> THEN 0
    ELSE (IF Head(s) = x THEN 1 ELSE 0) + Count(Tail(s), x)

\* the run of e has started (its setImmediate callback has run)
Started(e) == pc[e] \notin {"idle", "queued"}

\* a delivery attempt that failed without any response (timeout,
\* connection-level failure)
ConnectivityFailure(r) == r.kind = "error" /\ ~r.hasResponse

\* a delivery attempt answered with a client-error status
ClientErrorResponse(r) ==
    r.kind = "error" /\ r.hasResponse /\ r.status \in 400..499

\* number of delivery HTTP attempts run e has made
Attempts(e) == Count(trace[e], "post")

\* C1: in every call the 200 acknowledgment is sent before any pipeline step
\* of that event runs: each pipeline step in the event's trace is preceded by
\* the sendStatus step and by the deferral, and a started run has status 200.
C1_AckBeforePipeline ==
    \A e \in Events :
      /\ Started(e) => status[e] = 200
      /\ \A i \in 1..Len(trace[e]) :
           trace[e][i] \in PipelineSteps =>
             /\ \E j \in 1..(i - 1) : trace[e][j] = "sendStatus"
             /\ \E j \in 1..(i - 1) : trace[e][j] = "setImmediate"

\* a run has executed pipeline steps, after the acknowledgment
C1_Witness ==
    \E e \in Events :
      /\ Len(trace[e]) >= 4
      /\ trace[e][1] = "sendStatus"
      /\ trace[e][3] = "parse"
      /\ pc[e] = "awaitAI"

\* C2: every received event is answered with status 200, whatever its payload
\* and whatever the outcome of its pipeline run.
C2_AlwaysAcknowledged ==
    \A e \in Events : pc[e] # "idle" => status[e] = 200

\* a malformed event and an event whose delivery failed, both acknowledged
C2_Witness ==
    \E e1, e2 \in Events :
      /\ payload[e1].isNull /\ outcome[e1] = "ignored" /\ status[e1] = 200
      /\ outcome[e2] = "delivery-failed" /\ status[e2] = 200

\* C3: the promise of processWebhookEvent never rejects: it is pending while
\* the run awaits, resolved once the run is done, and a generator failure is
\* logged at error level instead of being propagated.
C3_NeverRejects ==
    \A e \in Events :
      /\ promise[e] # "rejected"
      /\ pc[e] = "done" => promise[e] = "resolved"
      /\ aiResult[e].kind \in {"malformed", "error"} =>
           \E i \in 1..Len(log[e]) :
             /\ log[e][i].level = "ERROR"
             /\ log[e][i].message = "Error processing message"
      /\ (pc[e] = "done" /\ ParserThrows(payload[e])) =>
           \E i \in 1..Len(log[e]) :
             /\ log[e][i].level = "ERROR"
             /\ log[e][i].message = "Error parsing webhook event"
      /\ (result[e].settled /\ ~result[e].success) =>
           \E i \in 1..Len(log[e]) :
             /\ log[e][i].level = "ERROR"
             /\ log[e][i].message = "Failed to send reply"

\* a generator call failed, and a parser exception was swallowed; both runs
\* resolved
C3_Witness ==
    \E e1, e2 \in Events :
      /\ aiResult[e1].kind = "error" /\ promise[e1] = "resolved"
      /\ ParserThrows(payload[e2]) /\ promise[e2] = "resolved"

\* the parse result of the body run e received
ParsedOf(e) == Parse(parserModule, payload[e])

\* the body of run e is rejected by the parser or by one of the filter rules
Ineligible(e) ==
    \/ ~ParsedOf(e).valid
    \/ ParsedOf(e).senderId = BotInstagramId
    \/ ParsedOf(e).hasAttachments
    \/ ParsedOf(e).messageText = Null

\* the terminal outcome that an event's own body, own generator result and
\* own delivery attempts determine
OwnOutcome(e) ==
    IF ~ParsedOf(e).valid THEN "ignored"
    ELSE IF Ineligible(e) THEN "filtered"
    ELSE IF aiResult[e].kind # "ok" THEN "generator-failed"
    ELSE IF posts[e] # <<>> /\ posts[e][Len(posts[e])].kind = "ok"
      THEN "delivered"
    ELSE "delivery-failed"

\* the delivery attempts of a finished run are complete: one attempt, or two
\* when the first one failed without a response
OwnAttemptsComplete(e) ==
    aiResult[e].kind = "ok" =>
      /\ posts[e] # <<>>
      /\ Len(posts[e]) = IF ConnectivityFailure(posts[e][1]) THEN 2 ELSE 1

\* C4: under every interleaving, the terminal outcome of each event is the
\* one its own payload and its own generator and delivery results determine,
\* and a run that is still in progress has no outcome; nothing another event
\* does aborts or changes it.
C4_IndependentOutcomes ==
    \A e \in Events :
      /\ pc[e] = "done" => outcome[e] = OwnOutcome(e) /\ OwnAttemptsComplete(e)
      /\ pc[e] # "done" => outcome[e] = "none"
      /\ pc[e] \in {"awaitAI", "awaitSend"} => promise[e] = "pending"

\* one event failed in the generator while another one, retried once, was
\* delivered
C4_Witness ==
    \E e1, e2 \in Events :
      /\ outcome[e1] = "generator-failed"
      /\ outcome[e2] = "delivered" /\ Len(posts[e2]) = 2

\* C5: for an event that parses invalid or that the filter rejects (sender is
\* the bot, attachments present, text absent) neither generateResponse nor
\* sendMessage is ever invoked, and no delivery attempt is made.
C5_NoCallsWhenIneligible ==
    \A e \in Events :
      (pc[e] # "idle" /\ Ineligible(e)) =>
        /\ genArgs[e] = <<>>
        /\ sendArgs[e] = <<>>
        /\ posts[e] = <<>>
        /\ pc[e] \in {"queued", "done"}

\* an echo of the bot's own message was filtered and an invalid payload was
\* ignored, without any call
C5_Witness ==
    \E e1, e2 \in Events :
      /\ pc[e1] = "done" /\ ParsedOf(e1).valid
      /\ ParsedOf(e1).senderId = BotInstagramId /\ genArgs[e1] = <<>>
      /\ pc[e2] = "done" /\ ~ParsedOf(e2).valid /\ genArgs[e2] = <<>>

\* C6: when the generator call of an event fails, the run stops: sendMessage
\* is never invoked for it, and an error-level log entry carries the event's
\* messageId and senderId.
C6_GeneratorFailureStops ==
    \A e \in Events :
      aiResult[e].kind \in {"malformed", "error"} =>
        /\ pc[e] = "done"
        /\ sendArgs[e] = <<>>
        /\ posts[e] = <<>>
        /\ \E i \in 1..Len(log[e]) :
             /\ log[e][i].level = "ERROR"
             /\ log[e][i].messageId = ParsedOf(e).messageId
             /\ log[e][i].senderId = ParsedOf(e).senderId

\* the generator timed out for an event
C6_Witness ==
    \E e \in Events :
      /\ aiResult[e] = AIError(0)
      /\ outcome[e] = "generator-failed"
      /\ ParsedOf(e).messageId = "m1"

\* C7: once the generator has returned for an eligible event, sendMessage is
\* invoked with the event's senderId as recipient and the returned text; a
\* successful delivery is logged as success with the message id the platform
\* returned.
C7_DeliveryArguments ==
    \A e \in Events :
      aiResult[e].kind = "ok" =>
        /\ aiResponse[e] = generateResponse(aiResult[e]).value
        /\ sendArgs[e] = <<[recipientId |-> ParsedOf(e).senderId,
                            messageText |-> aiResponse[e]]>>
        /\ outcome[e] = "delivered" =>
             LET r == posts[e][Len(posts[e])] IN
             \E i \in 1..Len(log[e]) :
               /\ log[e][i].level = "INFO"
               /\ log[e][i].message = "Message processed successfully"
               /\ log[e][i].detail \in {r.message_id, r.id} \ {Undefined}
               /\ log[e][i].messageId = ParsedOf(e).messageId

\* a message of U1 was answered and the answer delivered
C7_Witness ==
    \E e \in Events :
      /\ outcome[e] = "delivered"
      /\ sendArgs[e] = <<[recipientId |-> "U1",
                          messageText |-> <<"h", "e", "y">>]>>
      /\ result[e].messageId = "mid.1"

\* C8: per event, generateResponse is invoked at most once and sendMessage at
\* most once, the generator first; after a generator or delivery failure the
\* run is over: it is not queued again and nothing follows its return.
C8_AtMostOnceNoRequeue ==
    \A e \in Events :
      /\ Len(genArgs[e]) <= 1
      /\ Len(sendArgs[e]) <= 1
      /\ Count(trace[e], "generateResponse") = Len(genArgs[e])
      /\ Count(trace[e], "sendMessage") = Len(sendArgs[e])
      /\ \A i, j \in 1..Len(trace[e]) :
           (trace[e][i] = "generateResponse" /\ trace[e][j] = "sendMessage")
             => i < j
      /\ \A i \in 1..Len(trace[e]) :
           trace[e][i] = "return" => i = Len(trace[e])
      /\ outcome[e] \in {"generator-failed", "delivery-failed"} =>
           /\ pc[e] = "done"
           /\ \A i \in 1..Len(immediateQueue) : immediateQueue[i] # e

\* one run ended in a generator failure and one in a delivery failure
C8_Witness ==
    \E e1, e2 \in Events :
      /\ outcome[e1] = "generator-failed" /\ Len(genArgs[e1]) = 1
      /\ outcome[e2] = "delivery-failed" /\ Len(sendArgs[e2]) = 1

\* C9: sendMessage makes a second attempt exactly when the first one failed
\* without a response, and never a third; two such failures give the failure
\* outcome after two attempts, such a failure followed by a success gives the
\* success outcome of the second attempt.
C9_RetryOnceOnConnectivity ==
    \A e \in Events :
      /\ Attempts(e) <= 2
      /\ Len(posts[e]) <= Attempts(e)
      /\ posts[e] # <<>> =>
           (Attempts(e) = 2 <=> ConnectivityFailure(posts[e][1]))
      /\ (Len(posts[e]) = 2 /\ ConnectivityFailure(posts[e][2])) =>
           /\ result[e].settled /\ ~result[e].success
           /\ outcome[e] = "delivery-failed"
      /\ (Len(posts[e]) = 2 /\ posts[e][2].kind = "ok") =>
           /\ result[e].settled /\ result[e].success
           /\ result[e].messageId \in
                {posts[e][2].message_id, posts[e][2].id} \ {Undefined}

\* two timeouts in a row for one event, a timeout then a success for another
C9_Witness ==
    \E e1, e2 \in Events :
      /\ Len(posts[e1]) = 2 /\ ConnectivityFailure(posts[e1][2])
      /\ ~result[e1].success
      /\ Len(posts[e2]) = 2 /\ posts[e2][2].kind = "ok"
      /\ result[e2].success

\* C10: an attempt answered with a 4xx status is never followed by another
\* attempt: sendMessage returns the failure outcome, after exactly one attempt
\* when it is the first attempt that got the 4xx answer.
C10_NoRetryOnClientError ==
    \A e \in Events :
      \A i \in 1..Len(posts[e]) :
        ClientErrorResponse(posts[e][i]) =>
          /\ i = Len(posts[e])
          /\ Attempts(e) = i
          /\ result[e].settled /\ ~result[e].success
          /\ pc[e] = "done"
          /\ i = 1 => Attempts(e) = 1

\* the first attempt of an event was answered 400
C10_Witness ==
    \E e \in Events :
      /\ Len(posts[e]) = 1
      /\ posts[e][1].status = 400
      /\ result[e] = SendFailure("Invalid recipient ID")

\* C11: sendMessage never raises: whatever the attempts settle with
\* (success, failure without response, error response), the call returns
\* {success: true, messageId} or {success: false, error} to the run, and the
\* run ends exactly then.
C11_SendMessageReturnsOutcome ==
    \A e \in Events :
      /\ (pc[e] = "done" /\ sendArgs[e] # <<>>) =>
           /\ result[e].settled
           /\ \/ result[e].success /\ result[e].error = Undefined
              \/ /\ ~result[e].success
                 /\ result[e].error # Undefined
                 /\ result[e].messageId = Undefined
      /\ (posts[e] # <<>> /\ pc[e] = "awaitSend") =>
           /\ ConnectivityFailure(posts[e][1])
           /\ ~result[e].settled
      /\ result[e].settled => pc[e] = "done"

\* every kind of attempt result has ended a call: a success, a timeout after
\* a timeout, an error response
C11_Witness ==
    \E e1, e2 \in Events :
      /\ result[e1].settled /\ ~result[e1].success
      /\ Len(posts[e1]) = 2 /\ ConnectivityFailure(posts[e1][2])
      /\ result[e2].settled /\ ~result[e2].success
      /\ posts[e2][Len(posts[e2])].status = 500

(***************************************************************************)
(* shouldReplyToMessage called directly, on any parsed record (or null)    *)
(* and any bot id.                                                         *)
(***************************************************************************)
FilterSenders == {"U1", BotInstagramId, "bot_124"}
FilterTexts == {Null, "", "hi"}
FilterTimestamps == {UndefinedNum, 1700, 1800}
FilterBotIds == {BotInstagramId, "U1"}

FilterInputs ==
    {InvalidParse} \cup
    { ParsedMessage(s, t, a, ts, "m1") :
        s \in FilterSenders, t \in FilterTexts, a \in BOOLEAN,
        ts \in FilterTimestamps }

InitFilter ==
    /\ parserModule = "dual"
    /\ NoRequests
    /\ call \in { [fn |-> "shouldReplyToMessage", parsedMessage |-> pm,
                   botInstagramId |-> id, done |-> FALSE, ret |-> FALSE,
                   log |-> <<>>] :
                  pm \in FilterInputs, id \in FilterBotIds }

shouldReplyToMessageCall ==
    /\ call.fn = "shouldReplyToMessage"
    /\ ~call.done
    /\ call' = [call EXCEPT
         !.done = TRUE,
         !.ret = shouldReplyToMessage(call.parsedMessage,
                                      call.botInstagramId),
         !.log = FilterLog(call.parsedMessage, call.botInstagramId)]
    /\ UNCHANGED pipelineVars

NextFilter == shouldReplyToMessageCall

SpecFilter == InitFilter /\ [][NextFilter]_vars

\* C12: shouldReplyToMessage returns true exactly when the record is valid,
\* its text is not null, it has no attachments and its sender differs from
\* the bot id; a record whose sender is the bot id is rejected whatever its
\* text and attachments.
C12_FilterDecision ==
    (call.fn = "shouldReplyToMessage" /\ call.done) =>
      LET pm == call.parsedMessage IN
      /\ call.ret <=> /\ pm.valid
                      /\ pm.messageText # Null
                      /\ ~pm.hasAttachments
                      /\ pm.senderId # call.botInstagramId
      /\ (pm.valid /\ pm.senderId = call.botInstagramId) => ~call.ret

\* an otherwise eligible message of the bot itself was rejected, and the
\* decision was taken
C12_Witness ==
    /\ call.fn = "shouldReplyToMessage" /\ call.done
    /\ call.parsedMessage.senderId = call.botInstagramId
    /\ call.parsedMessage.messageText = "hi"
    /\ ~call.parsedMessage.hasAttachments
    /\ ~call.ret

----------------------------------------------------------------------------
\* The parser as a pure function: one call on one envelope.

ParserSenders == {NoSender, Undefined, "", "U1"}
ParserMids == {Undefined, "", "m1"}
ParserTexts == {Undefined, "", " hi "}
ParserAttachments ==
    {NoAttachments, [isArray |-> FALSE, length |-> 2],
     Attachments(0), Attachments(1), Attachments(2)}
ParserTimestamps == {UndefinedNum, 0, 1700, DigitString(1700)}

ParserMsgs ==
    { Msg(mid, text, att) :
        mid \in ParserMids, text \in ParserTexts, att \in ParserAttachments }

ParserEvents ==
    {NullEvent}
    \cup { MessagingEvent(sub, m, s, ts) :
             sub \in {"message", "message_edit"}, m \in ParserMsgs,
             s \in ParserSenders, ts \in ParserTimestamps }
    \cup { MessagingEvent(sub, NoMsg, s, ts) :
             sub \in {"read", "unknown"},
             s \in ParserSenders, ts \in ParserTimestamps }

\* the field discriminator of a change: the literal, others, or none
ParserFields == {"messages", "comments", "Messages", Undefined}

ParserChanges ==
    {NullChange}
    \cup { Change(f, FALSE, FALSE, NoMsg, NoSender, UndefinedNum) :
             f \in ParserFields }
    \cup { Change(f, TRUE, FALSE, NoMsg, s, ts) :
             f \in ParserFields,
             s \in ParserSenders, ts \in ParserTimestamps }
    \cup { Change(f, TRUE, TRUE, m, s, ts) :
             f \in ParserFields, m \in ParserMsgs,
             s \in ParserSenders, ts \in ParserTimestamps }

\* the elements combined when an entry carries both lists
BothEvents ==
    {NullEvent,
     MessagingEvent("read", NoMsg, "U1", 1700),
     MessagingEvent("message", Msg("m1", " hi ", NoAttachments), "U1", 1700),
     MessagingEvent("message", Msg(Undefined, " hi ", NoAttachments), "U1",
                    1700)}
BothChanges ==
    {NullChange,
     Change("messages", TRUE, TRUE, Msg("m2", "yo", NoAttachments), "U2",
            1800),
     Change("comments", TRUE, FALSE, NoMsg, NoSender, UndefinedNum)}

ParserEntries ==
    {NullEntry}
    \cup { Entry(m, c) : m \in {NoList, NotAList, List(<<>>)},
                         c \in {NoList, NotAList, List(<<>>)} }
    \cup { Entry(List(<<ev>>), NoList) : ev \in ParserEvents }
    \cup { Entry(m, List(<<ch>>)) :
             m \in {NoList, List(<<>>)}, ch \in ParserChanges }
    \cup { Entry(List(<<ev>>), List(<<ch>>)) :
             ev \in BothEvents, ch \in BothChanges }

ParserPayloads ==
    {NullPayload, Payload(NoList), Payload(NotAList), Payload(List(<<>>))}
    \cup { Payload(List(<<en>>)) : en \in ParserEntries }
    \cup { Payload(List(<<Entry(List(<<ev>>), NoList), NullEntry>>)) :
             ev \in BothEvents }

\* what a call of the parser gives its caller: [threw, value]
ParseOutcome(module, p) ==
    [threw |-> ParseCatch(ParseTry(module, p)).threw,
     value |-> Parse(module, p)]

InitParser ==
    /\ parserModule \in ParserModules
    /\ NoRequests
    /\ call \in { [fn |-> "parseWebhookEvent", payload |-> p,
                   done |-> FALSE, raised |-> FALSE, ret |-> InvalidParse] :
                  p \in ParserPayloads }

parseWebhookEventCall ==
    /\ call.fn = "parseWebhookEvent"
    /\ ~call.done
    /\ call' = [call EXCEPT
                  !.done = TRUE,
                  !.raised = ParseOutcome(parserModule, call.payload).threw,
                  !.ret = ParseOutcome(parserModule, call.payload).value]
    /\ UNCHANGED pipelineVars

NextParser == parseWebhookEventCall

SpecParser == InitParser /\ [][NextParser]_vars

\* the parser has returned from a call of the dual-format module
ParsedDual ==
    /\ call.fn = "parseWebhookEvent"
    /\ call.done
    /\ parserModule = "dual"

\* the parser has returned from a call of either module
ParsedAny == call.fn = "parseWebhookEvent" /\ call.done

\* the envelope has a first entry that is an object
HasEntry(p) ==
    /\ ~p.isNull
    /\ ~EmptyOrMissing(p.entry)
    /\ ~p.entry.items[1].isNull

\* the envelope is of the messaging-list shape with a message in front
MessagingShape(p) ==
    /\ HasEntry(p)
    /\ ~EmptyOrMissing(p.entry.items[1].messaging)
    /\ ~p.entry.items[1].messaging.items[1].isNull
    /\ p.entry.items[1].messaging.items[1].sub = "message"

\* the envelope is of the changes-list shape with field "messages"
ChangesShape(p) ==
    /\ HasEntry(p)
    /\ EmptyOrMissing(p.entry.items[1].messaging)
    /\ ~EmptyOrMissing(p.entry.items[1].changes)
    /\ ~p.entry.items[1].changes.items[1].isNull
    /\ p.entry.items[1].changes.items[1].field = "messages"
    /\ p.entry.items[1].changes.items[1].hasValue
    /\ p.entry.items[1].changes.items[1].hasMessage

\* the element of the envelope that carries the message, in either shape
Carrier(p) ==
    IF MessagingShape(p) THEN p.entry.items[1].messaging.items[1]
    ELSE p.entry.items[1].changes.items[1]

\* a string field that is present and not empty
NonEmpty(v) == v \notin {Undefined, Null, NoSender, ""}

\* the envelope carries a non-empty sender id and message id
CarriesIds(p) ==
    /\ MessagingShape(p) \/ ChangesShape(p)
    /\ NonEmpty(Carrier(p).sender)
    /\ NonEmpty(Carrier(p).msg.mid)

HasSelected(p) ==
    /\ HasEntry(p)
    /\ \/ /\ ~EmptyOrMissing(p.entry.items[1].messaging)
          /\ ~p.entry.items[1].messaging.items[1].isNull
       \/ /\ EmptyOrMissing(p.entry.items[1].messaging)
          /\ ~EmptyOrMissing(p.entry.items[1].changes)
          /\ ~p.entry.items[1].changes.items[1].isNull

\* that element: messaging[0] when the messaging list has one, else
\* changes[0]
Selected(p) ==
    IF ~EmptyOrMissing(p.entry.items[1].messaging)
    THEN p.entry.items[1].messaging.items[1]
    ELSE p.entry.items[1].changes.items[1]

\* C14: for an envelope that parses valid, hasAttachments is true exactly
\* when the message carries an attachment list with at least one entry,
\* whatever the text is.
C14_HasAttachmentsIffNonEmptyList ==
    (ParsedAny /\ call.ret.valid) =>
       (call.ret.hasAttachments <=>
          /\ Selected(call.payload).msg.attachments.isArray
          /\ Selected(call.payload).msg.attachments.length >= 1)

C14_Witness ==
    /\ ParsedAny
    /\ call.ret.valid
    /\ call.ret.hasAttachments
    /\ call.ret.messageText = " hi "
    /\ Selected(call.payload).msg.attachments = Attachments(2)

NothingToParse(p) ==
    \/ p.isNull
    \/ EmptyOrMissing(p.entry)
    \/ /\ HasEntry(p)
       /\ EmptyOrMissing(p.entry.items[1].messaging)
       /\ EmptyOrMissing(p.entry.items[1].changes)

\* C16: the parser returns invalid (null) for a null payload, for a
\* missing, non-list or empty entry list, and for a first entry whose
\* messaging and changes lists are both absent or empty.
C16_InvalidWhenNothingToParse ==
    (ParsedAny /\ NothingToParse(call.payload)) =>
       /\ ~call.raised
       /\ ~call.ret.valid
       /\ call.ret = InvalidParse

C16_Witness ==
    /\ ParsedDual
    /\ HasEntry(call.payload)
    /\ call.payload.entry.items[1].messaging = List(<<>>)
    /\ call.payload.entry.items[1].changes = NotAList
    /\ call.ret = InvalidParse

\* C17: the parser never raises to its caller; for every input, a null
\* first entry, event or change included, it returns a parsed record or
\* invalid.
C17_ParserNeverRaises ==
    ParsedAny =>
       /\ ~call.raised
       /\ call.ret = InvalidParse \/ call.ret.valid

C17_Witness ==
    /\ ParsedAny
    /\ ~call.payload.isNull
    /\ ~EmptyOrMissing(call.payload.entry)
    /\ call.payload.entry.items[1].isNull
    /\ ~call.raised
    /\ call.ret = InvalidParse

\* C18: every record the parser returns has a non-empty senderId and a
\* non-empty messageId, and an envelope missing either parses invalid.
C18_RecordHasBothIds ==
    /\ (ParsedAny /\ call.ret.valid) =>
          /\ NonEmpty(call.ret.senderId)
          /\ NonEmpty(call.ret.messageId)
          /\ call.ret.senderId = Selected(call.payload).sender
          /\ call.ret.messageId = Selected(call.payload).msg.mid
    /\ (/\ ParsedAny
        /\ HasSelected(call.payload)
        /\ \/ ~NonEmpty(Selected(call.payload).sender)
           \/ ~NonEmpty(Selected(call.payload).msg.mid)) =>
          call.ret = InvalidParse

C18_Witness ==
    /\ ParsedDual
    /\ ChangesShape(call.payload)
    /\ Selected(call.payload).sender = ""
    /\ Selected(call.payload).msg.mid = "m1"
    /\ call.ret = InvalidParse

----------------------------------------------------------------------------
\* The verification handshake (GET /webhook): one request.

\* a query or environment value: a string (a sequence of characters), or
\* something that is not a string (absent, or a repeated parameter's array)
MaxTokenLen == 2
Str(chars) == [isString |-> TRUE, chars |-> chars]
NotAString(chars) == [isString |-> FALSE, chars |-> chars]

SeqsUpTo(S, n) == UNION { [1..k -> S] : k \in 0..n }

\* Buffer.from(string): the UTF-8 bytes of a string, character by character
Utf8(c) ==
    CASE c = "a" -> <<97>>
      [] c = "b" -> <<98>>
      [] c = "U+0000" -> <<0>>
      [] c = "U+00E9" -> <<195, 169>>

RECURSIVE BufferFrom(_)
BufferFrom(chars) ==
    IF chars = <<>> THEN <<>>
    ELSE Utf8(Head(chars)) \o BufferFrom(Tail(chars))

\* Buffer.alloc(n) followed by source.copy(target): the bytes of the
\* source, then zeros up to n
PaddedCopy(buffer, n) ==
    [i \in 1..n |-> IF i <= Len(buffer) THEN buffer[i] ELSE 0]

MaxOf(m, n) == IF m >= n THEN m ELSE n

\* crypto.timingSafeEqual: throws on buffers of different lengths
timingSafeEqual(x, y) ==
    IF Len(x) # Len(y) THEN [threw |-> TRUE, value |-> FALSE]
    ELSE [threw |-> FALSE, value |-> x = y]

\* variant: the padded buffers are compared and the lengths are not
secureComparePaddedOnly(a, b) ==
    IF ~a.isString \/ ~b.isString THEN FALSE
    ELSE LET bufferA == BufferFrom(a.chars)
             bufferB == BufferFrom(b.chars)
             maxLength == MaxOf(Len(bufferA), Len(bufferB))
             t == timingSafeEqual(PaddedCopy(bufferA, maxLength),
                                  PaddedCopy(bufferB, maxLength))
         IN ~t.threw /\ t.value

secureCompare(a, b) ==
    IF ~a.isString \/ ~b.isString THEN FALSE
    ELSE LET bufferA == BufferFrom(a.chars)
             bufferB == BufferFrom(b.chars)
             maxLength == MaxOf(Len(bufferA), Len(bufferB))
             t == timingSafeEqual(PaddedCopy(bufferA, maxLength),
                                  PaddedCopy(bufferB, maxLength))
         IN IF t.threw THEN FALSE
            ELSE t.value /\ Len(bufferA) = Len(bufferB)

\* what the handler did to the response: the status, and whether and with
\* what res.send was called (res.sendStatus sends no caller data)
NoResponse == [status |-> 0, sendCalled |-> FALSE, sent |-> Undefined]
sendStatus(code) == [status |-> code, sendCalled |-> FALSE, sent |-> Undefined]
statusSend(code, body) == [status |-> code, sendCalled |-> TRUE, sent |-> body]

handleVerification(mode, token, challenge, expectedToken) ==
    IF mode # "subscribe"
    THEN [res |-> sendStatus(403),
          log |-> <<[level |-> "DEBUG",
                     message |-> "Webhook verification failed: Invalid mode"]>>]
    ELSE IF ~secureCompare(token, expectedToken)
    THEN [res |-> sendStatus(403),
          log |-> <<[level |-> "DEBUG",
                     message |->
                       "Webhook verification failed: Invalid verify token"]>>]
    ELSE [res |-> statusSend(200, challenge),
          log |-> <<[level |-> "INFO",
                     message |-> "Webhook verification successful"]>>]

VerifyModes == {"subscribe", "unsubscribe", "Subscribe", Undefined}
VerifyChallenges == {"challenge_string_xyz", Undefined}
\* the supplied token: any short string, absent, or a repeated parameter
VerifyTokens ==
    { Str(c) : c \in SeqsUpTo({"a", "b", "U+0000", "U+00E9"}, MaxTokenLen) }
    \cup {NotAString(<<>>), NotAString(<<"a">>)}
\* the configured token: startup has checked that it is a non-empty string,
\* and an environment value holds no NUL
ConfiguredTokens ==
    { Str(c) : c \in SeqsUpTo({"a", "b", "U+00E9"}, MaxTokenLen) \ {<<>>} }

InitVerify ==
    /\ parserModule = "dual"
    /\ NoRequests
    /\ call \in { [fn |-> "handleVerification", mode |-> m, token |-> t,
                   challenge |-> c, VERIFY_TOKEN |-> x, done |-> FALSE,
                   res |-> NoResponse, log |-> <<>>] :
                  m \in VerifyModes, t \in VerifyTokens,
                  c \in VerifyChallenges, x \in ConfiguredTokens }

handleVerificationCall ==
    /\ call.fn = "handleVerification"
    /\ ~call.done
    /\ LET r == handleVerification(call.mode, call.token, call.challenge,
                                   call.VERIFY_TOKEN)
       IN call' = [call EXCEPT !.done = TRUE, !.res = r.res, !.log = r.log]
    /\ UNCHANGED pipelineVars

NextVerify == handleVerificationCall

SpecVerify == InitVerify /\ [][NextVerify]_vars

\* the request asks to subscribe and its token is the configured one
Verified ==
    /\ call.mode = "subscribe"
    /\ call.token.isString
    /\ call.token.chars = call.VERIFY_TOKEN.chars

\* C19: the handshake answers 200 with the supplied challenge exactly when
\* the mode is "subscribe" and the supplied token equals the configured
\* token; every other request (wrong mode, wrong, missing or longer or
\* shorter token) is answered 403 without the challenge.
C19_HandshakeIffTokenAndMode ==
    (call.fn = "handleVerification" /\ call.done) =>
       /\ Verified =>
            /\ call.res.status = 200
            /\ call.res.sendCalled
            /\ call.res.sent = call.challenge
       /\ ~Verified =>
            /\ call.res.status = 403
            /\ ~call.res.sendCalled

C19_Witness ==
    /\ call.fn = "handleVerification"
    /\ call.done
    /\ call.mode = "subscribe"
    /\ call.token.isString
    /\ call.token.chars = Append(call.VERIFY_TOKEN.chars, "U+0000")
    /\ call.res.status = 403
    /\ ~call.res.sendCalled

----------------------------------------------------------------------------
\* Startup (index.js): the environment is validated, then the server
\* listens.

\* variant: the bot's own id is not required
requiredEnvVarsNoBotId ==
    <<"INSTAGRAM_ACCESS_TOKEN", "VERIFY_TOKEN", "AI_API_KEY">>

requiredEnvVars ==
    <<"INSTAGRAM_ACCESS_TOKEN", "VERIFY_TOKEN", "AI_API_KEY",
      "BOT_INSTAGRAM_ID">>

\* requiredEnvVars.filter(varName => !process.env[varName])
missingVars(env) ==
    SelectSeq(requiredEnvVars, LAMBDA varName : Falsy(env[varName]))

\* the run of the start script: process.exit(1) after the report when a
\* value is missing, else the routes are mounted and app.listen is called
startup(env) ==
    IF Len(missingVars(env)) > 0
    THEN [exited |-> TRUE, exitCode |-> 1, listening |-> FALSE,
          missingVariables |-> missingVars(env),
          log |-> <<[level |-> "ERROR",
                     message |-> "Missing required environment variables"]>>,
          trace |-> <<"validate", "report", "exit">>]
    ELSE [exited |-> FALSE, exitCode |-> 0, listening |-> TRUE,
          missingVariables |-> <<>>,
          log |-> <<>>,
          trace |-> <<"validate", "listen">>]

EnvNames ==
    {"INSTAGRAM_ACCESS_TOKEN", "VERIFY_TOKEN", "AI_API_KEY",
     "BOT_INSTAGRAM_ID"}
\* a variable is unset, set to the empty string, or set to a value
EnvValues == {Undefined, "", "v"}

InitStartup ==
    /\ parserModule = "dual"
    /\ NoRequests
    /\ call \in { [fn |-> "startup", env |-> env, done |-> FALSE,
                   proc |-> [exited |-> FALSE, exitCode |-> 0,
                             listening |-> FALSE, missingVariables |-> <<>>,
                             log |-> <<>>, trace |-> <<>>]] :
                  env \in [EnvNames -> EnvValues] }

startupCall ==
    /\ call.fn = "startup"
    /\ ~call.done
    /\ call' = [call EXCEPT !.done = TRUE, !.proc = startup(call.env)]
    /\ UNCHANGED pipelineVars

NextStartup == startupCall

SpecStartup == InitStartup /\ [][NextStartup]_vars

\* the required values that are unset or empty in the environment
MissingValues ==
    { n \in {"INSTAGRAM_ACCESS_TOKEN", "VERIFY_TOKEN", "AI_API_KEY",
             "BOT_INSTAGRAM_ID"} : call.env[n] \in {Undefined, ""} }

\* C20: at startup, if any of the four required values is missing the
\* process exits before the server listens and reports exactly the missing
\* values; if none is missing the server starts.
C20_StartupValidation ==
    (call.fn = "startup" /\ call.done) =>
       /\ MissingValues # {} =>
            /\ call.proc.exited
            /\ call.proc.exitCode = 1
            /\ ~call.proc.listening
            /\ \A i \in 1..Len(call.proc.trace) :
                 call.proc.trace[i] # "listen"
            /\ { call.proc.missingVariables[i] :
                   i \in 1..Len(call.proc.missingVariables) } = MissingValues
            /\ Len(call.proc.missingVariables) = Cardinality(MissingValues)
       /\ MissingValues = {} =>
            /\ ~call.proc.exited
            /\ call.proc.listening
            /\ call.proc.missingVariables = <<>>

C20_Witness ==
    /\ call.fn = "startup"
    /\ call.done
    /\ MissingValues = {"VERIFY_TOKEN", "BOT_INSTAGRAM_ID"}
    /\ call.proc.exited
    /\ call.proc.missingVariables = <<"VERIFY_TOKEN", "BOT_INSTAGRAM_ID">>
    /\ ~call.proc.listening

----------------------------------------------------------------------------
\* The pipeline again: replies only.

\* the inbound events that have been received, parsed valid and accepted by
\* the filter rules
AcceptedEvents == { e \in Events : pc[e] # "idle" /\ ~Ineligible(e) }

\* the total number of sendMessage invocations of the runs in S
RECURSIVE Invocations(_)
Invocations(S) ==
    IF S = {} THEN 0
    ELSE LET e == CHOOSE x \in S : TRUE
         IN Len(sendArgs[e]) + Invocations(S \ {e})

\* C21: the system sends nothing but replies: every sendMessage call has as
\* recipient the senderId of an inbound event that was received and
\* acknowledged before, parsed valid and was accepted by the filter, and
\* there are never more sendMessage calls than accepted inbound events.
C21_RepliesOnly ==
    /\ \A e \in Events :
         \A i \in 1..Len(sendArgs[e]) :
           /\ status[e] = 200
           /\ e \in AcceptedEvents
           /\ sendArgs[e][i].recipientId = ParsedOf(e).senderId
           /\ \E j \in 1..Len(trace[e]) :
                /\ trace[e][j] = "sendMessage"
                /\ \E k \in 1..(j - 1) : trace[e][k] = "sendStatus"
    /\ Invocations(Events) <= Cardinality(AcceptedEvents)

\* one accepted event was answered, another accepted one was not (its
\* generator call failed): one call for two accepted events
C21_Witness ==
    \E e1, e2 \in Events :
      /\ sendArgs[e1] # <<>>
      /\ sendArgs[e1][1].recipientId = "U2"
      /\ outcome[e2] = "generator-failed"
      /\ Invocations(Events) = 1
      /\ Cardinality(AcceptedEvents) = 2

----------------------------------------------------------------------------
\* The parser again: the timestamp.

\* C23: for a messaging-shape message event with a valid sender id, message
\* id and text but no timestamp, the parser returns invalid (null).
C23_MissingTimestampInvalid ==
    (/\ ParsedAny
     /\ MessagingShape(call.payload)
     /\ CarriesIds(call.payload)
     /\ NonEmpty(Carrier(call.payload).msg.text)
     /\ Carrier(call.payload).timestamp = UndefinedNum) =>
       /\ ~call.raised
       /\ call.ret = InvalidParse

\* the envelope is of a shape the parser module in use reads
SupportedShape(p) ==
    \/ MessagingShape(p)
    \/ parserModule = "dual" /\ ChangesShape(p)

\* C28: an envelope with a valid sender id and message id parses to a valid
\* record even when text, attachments and timestamp are all missing; the
\* record then has messageText absent and hasAttachments false.
C28_ValidWithIdsOnly ==
    (/\ ParsedAny
     /\ SupportedShape(call.payload)
     /\ CarriesIds(call.payload)
     /\ Carrier(call.payload).msg.text = Undefined
     /\ Carrier(call.payload).msg.attachments = NoAttachments
     /\ Carrier(call.payload).timestamp = UndefinedNum) =>
       /\ call.ret.valid
       /\ call.ret.messageText = Null
       /\ ~call.ret.hasAttachments

----------------------------------------------------------------------------
\* The generator as a function of how its HTTP call settles: one call.

MaxContentLen == 3

\* the content of the first choice: any short text of letters and blanks
GenerateContents == SeqsUpTo({" ", "\n", "a", "b"}, MaxContentLen)

\* a response with a content, a response without a usable first choice, a
\* timeout (no status), and the error statuses 401, 429 and 500
GenerateResults ==
    { AIOk(c) : c \in GenerateContents }
    \cup {AIMalformed}
    \cup { AIError(st) : st \in {0, 401, 429, 500} }

InitGenerate ==
    /\ parserModule = "dual"
    /\ NoRequests
    /\ call \in { [fn |-> "generateResponse", settled |-> r, done |-> FALSE,
                   threw |-> FALSE, value |-> <<>>, message |-> ""] :
                  r \in GenerateResults }

generateResponseCall ==
    /\ call.fn = "generateResponse"
    /\ ~call.done
    /\ LET g == generateResponse(call.settled)
       IN call' = [call EXCEPT !.done = TRUE, !.threw = g.threw,
                               !.value = g.value, !.message = g.message]
    /\ UNCHANGED pipelineVars

NextGenerate == generateResponseCall

SpecGenerate == InitGenerate /\ [][NextGenerate]_vars

\* every element of s is a blank
AllBlank(s) == \A i \in 1..Len(s) : s[i] \in {" ", "\n", "\t"}

\* t is s without its leading and trailing blanks
IsTrimmed(t, s) ==
    /\ t = <<>> \/ (t[1] \notin {" ", "\n", "\t"}
                    /\ t[Len(t)] \notin {" ", "\n", "\t"})
    /\ \E i \in 0..Len(s) :
         /\ i + Len(t) <= Len(s)
         /\ t = SubSeq(s, i + 1, i + Len(t))
         /\ AllBlank(SubSeq(s, 1, i))
         /\ AllBlank(SubSeq(s, i + Len(t) + 1, Len(s)))

\* C24: generateResponse returns the trimmed content of the first choice,
\* or it throws an Error with the message 'Failed to generate AI response';
\* every failure (timeout, error status, no usable first choice) is that
\* throw and never a returned value.
C24_ReturnsTrimmedOrThrows ==
    (call.fn = "generateResponse" /\ call.done) =>
       /\ call.settled.kind = "ok" =>
            /\ ~call.threw
            /\ IsTrimmed(call.value, call.settled.content)
       /\ call.settled.kind # "ok" =>
            /\ call.threw
            /\ call.message = "Failed to generate AI response"
            /\ call.value = <<>>
       /\ call.threw => call.message = "Failed to generate AI response"

C24_Witness ==
    /\ call.fn = "generateResponse"
    /\ call.done
    /\ call.settled = AIError(429)
    /\ call.threw
    /\ call.message = "Failed to generate AI response"

----------------------------------------------------------------------------
\* Progress of the pipeline.  The event loop runs every scheduled
\* setImmediate callback, and each HTTP call settles: both axios calls carry
\* a timeout, so a call that gets no answer is rejected.

Fairness ==
    \A e \in Events :
      /\ WF_vars(processWebhookEvent(e))
      /\ WF_vars(\E r \in AIResults : generateResponseSettles(e, r))
      /\ WF_vars(\E r \in SendResults : sendMessageSettles(e, r))

\* one body for each way the synchronous part of a run ends: ignored as
\* invalid, filtered, and accepted
LivePayloads ==
    { NullPayload,
      MessagingPayload(MessagingEvent("message",
          Msg("m3", "look", Attachments(1)), "U1", 1700)),
      MessagingPayload(MessagingEvent("message",
          Msg("m1", "hi", NoAttachments), "U1", 1700)) }

InitLive ==
    /\ parserModule = "dual"
    /\ call = NoCall
    /\ NoRequests

NextLive ==
    \/ \E e \in Events, body \in LivePayloads : handleWebhook(e, body)
    \/ \E e \in Events : processWebhookEvent(e)
    \/ \E e \in Events, r \in AIResults : generateResponseSettles(e, r)
    \/ \E e \in Events, r \in SendResults : sendMessageSettles(e, r)

SpecLive == InitLive /\ [][NextLive]_vars /\ Fairness

\* C25: every pipeline run that starts for a received event eventually
\* reaches a terminal state (ignored, filtered, generator-failed,
\* delivery-failed or delivered), given that each HTTP call eventually
\* settles; no event stays in progress forever.
C25_RunsTerminate ==
    \A e \in Events :
      (pc[e] # "idle") ~>
         (/\ pc[e] = "done"
          /\ outcome[e] \in {"ignored", "filtered", "generator-failed",
                             "delivery-failed", "delivered"})

\* a run ended after two delivery attempts that both failed
C25_Witness ==
    \E e \in Events :
      /\ pc[e] = "done"
      /\ outcome[e] = "delivery-failed"
      /\ Len(posts[e]) = 2

----------------------------------------------------------------------------
\* The filter again: the order of its rules, and time.

\* the message the filter logs when its rules are taken in the order
\* invalid, text absent, attachments present, sender is the bot
FirstFailingRule(pm, botId) ==
    IF ~pm.valid THEN "Filtering message: parsedMessage is null"
    ELSE IF pm.messageText = Null
      THEN "Filtering message: messageText is null"
    ELSE IF pm.hasAttachments
      THEN "Filtering message: message has attachments"
    ELSE IF pm.senderId = botId
      THEN "Filtering message: sender is bot (echo prevention)"
    ELSE "Message passed all filters, will reply"

\* C26: the filter evaluates its rules in the order invalid, text absent,
\* attachments present, sender equals self, and logs the reason of the
\* first rule that fails in this order; the order does not change the
\* boolean result.
C26_FirstFailingRuleLogged ==
    (call.fn = "shouldReplyToMessage" /\ call.done) =>
       /\ Len(call.log) = 1
       /\ call.log[1].level = "DEBUG"
       /\ call.log[1].message =
            FirstFailingRule(call.parsedMessage, call.botInstagramId)
       /\ call.ret <=>
            call.log[1].message = "Message passed all filters, will reply"
       /\ call.ret <=>
            /\ call.parsedMessage.valid
            /\ call.parsedMessage.senderId # call.botInstagramId
            /\ ~call.parsedMessage.hasAttachments
            /\ call.parsedMessage.messageText # Null

\* a message without text and with attachments is reported as having no
\* text
C26_Witness ==
    /\ call.fn = "shouldReplyToMessage"
    /\ call.done
    /\ call.parsedMessage.valid
    /\ call.parsedMessage.messageText = Null
    /\ call.parsedMessage.hasAttachments
    /\ call.log[1].message = "Filtering message: messageText is null"
    /\ ~call.ret

\* C27: the filter decision does not depend on time: parsed messages that
\* differ only in their timestamp get the same result.
C27_DecisionIgnoresTimestamp ==
    (call.fn = "shouldReplyToMessage" /\ call.done
       /\ call.parsedMessage.valid) =>
       \A ts \in FilterTimestamps :
         shouldReplyToMessage([call.parsedMessage EXCEPT !.timestamp = ts],
                              call.botInstagramId) = call.ret

\* a message 101 hours old is accepted
C27_Witness ==
    /\ call.fn = "shouldReplyToMessage"
    /\ call.done
    /\ call.parsedMessage.valid
    /\ call.parsedMessage.timestamp = 1700
    /\ OutsideReplyWindow(call.parsedMessage.timestamp)
    /\ call.ret

----------------------------------------------------------------------------
\* The parser again: the two shapes.

\* the first entry has a messaging list whose first event is an object that
\* is neither a message nor an edited message
NonMessageEvent(p) ==
    /\ HasEntry(p)
    /\ ~EmptyOrMissing(p.entry.items[1].messaging)
    /\ ~p.entry.items[1].messaging.items[1].isNull
    /\ p.entry.items[1].messaging.items[1].sub
         \notin {"message", "message_edit"}

\* the first entry carries a changes list with a valid message in front
ValidChange(p) ==
    /\ HasEntry(p)
    /\ ~EmptyOrMissing(p.entry.items[1].changes)
    /\ ~p.entry.items[1].changes.items[1].isNull
    /\ p.entry.items[1].changes.items[1].field = "messages"
    /\ p.entry.items[1].changes.items[1].hasValue
    /\ p.entry.items[1].changes.items[1].hasMessage
    /\ NonEmpty(p.entry.items[1].changes.items[1].sender)
    /\ NonEmpty(p.entry.items[1].changes.items[1].msg.mid)

\* C29: the parser tries the messaging list first and falls back to the
\* changes list only when the messaging list is absent or empty: a
\* non-empty messaging list whose first event is not a message (read,
\* delivery, postback, unknown) gives invalid without raising, even when
\* the entry also carries a valid changes list.
C29_MessagingListFirst ==
    /\ (ParsedAny /\ NonMessageEvent(call.payload)) =>
          /\ ~call.raised
          /\ call.ret = InvalidParse
    /\ (ParsedDual /\ ValidChange(call.payload)) =>
          (call.ret.valid /\ call.ret.messageId =
              call.payload.entry.items[1].changes.items[1].msg.mid)
            <=> EmptyOrMissing(call.payload.entry.items[1].messaging)

\* a read event in front of a valid change: invalid
C29_Witness ==
    /\ ParsedDual
    /\ NonMessageEvent(call.payload)
    /\ ValidChange(call.payload)
    /\ ~call.raised
    /\ call.ret = InvalidParse

\* C30: for a changes-list envelope the parser returns invalid unless the
\* first change's field equals the literal "messages"; a change with any
\* other field never produces a record.
C30_FieldMustBeMessages ==
    (/\ ParsedAny
     /\ HasEntry(call.payload)
     /\ EmptyOrMissing(call.payload.entry.items[1].messaging)
     /\ ~EmptyOrMissing(call.payload.entry.items[1].changes)
     /\ ~call.payload.entry.items[1].changes.items[1].isNull
     /\ call.payload.entry.items[1].changes.items[1].field # "messages") =>
       /\ ~call.raised
       /\ call.ret = InvalidParse

\* a complete message under the field "comments": invalid
C30_Witness ==
    /\ ParsedDual
    /\ HasSelected(call.payload)
    /\ EmptyOrMissing(call.payload.entry.items[1].messaging)
    /\ Selected(call.payload) =
         Change("comments", TRUE, TRUE, Msg("m1", " hi ", NoAttachments),
                "U1", 1700)
    /\ call.ret = InvalidParse

----------------------------------------------------------------------------
\* The parser again: one record for the two shapes and for edited messages.

\* the changes-list envelope that carries what the messaging event ev
\* carries
AsChangesPayload(ev) ==
    ChangesPayload(Change("messages", TRUE, TRUE, ev.msg, ev.sender,
                          ev.timestamp))

\* C31: a messaging-list envelope and a changes-list envelope that carry the
\* same sender id, message id, text, attachment list and (present, non-zero)
\* timestamp are normalized to equal records.
C31_ShapesNormalizeEqual ==
    (/\ ParsedDual
     /\ MessagingShape(call.payload)
     /\ ~FalsyNum(Carrier(call.payload).timestamp)) =>
       call.ret = parseWebhookEvent(AsChangesPayload(Carrier(call.payload)))

\* the first event of the messaging list is an edited message
EditedMessage(p) ==
    /\ HasSelected(p)
    /\ ~EmptyOrMissing(p.entry.items[1].messaging)
    /\ Selected(p).sub = "message_edit"

C37_EmptyTextIsAbsent ==
    (ParsedAny /\ call.ret.valid) =>
       /\ call.ret.messageText # ""
       /\ (HasSelected(call.payload)
             /\ Selected(call.payload).msg.text = "") =>
            /\ call.ret.messageText = Null
            /\ \A id \in FilterBotIds :
                 /\ ~shouldReplyToMessage(call.ret, id)
                 /\ FilterReason(call.ret, id) = "messageText is null"

C37_Witness ==
    /\ ParsedAny
    /\ parserModule = "messaging"
    /\ call.ret.valid
    /\ HasSelected(call.payload)
    /\ Selected(call.payload).msg.text = ""
    /\ call.ret.messageText = Null
    /\ ~call.ret.hasAttachments

----------------------------------------------------------------------------
\* secureCompare on its own: every pair of the token values, non-strings
\* included.

InitCompare ==
    /\ parserModule = "dual"
    /\ NoRequests
    /\ call \in { [fn |-> "secureCompare", a |-> a, b |-> b,
                   done |-> FALSE, ret |-> FALSE] :
                  a \in VerifyTokens, b \in VerifyTokens }

secureCompareCall ==
    /\ call.fn = "secureCompare"
    /\ ~call.done
    /\ call' = [call EXCEPT !.done = TRUE,
                            !.ret = secureCompare(call.a, call.b)]
    /\ UNCHANGED pipelineVars

NextCompare == secureCompareCall

SpecCompare == InitCompare /\ [][NextCompare]_vars

\* C34: secureCompare(a, b) is true exactly when a and b are both strings
\* and identical; it is false for a non-string argument and for strings of
\* different lengths, a string and the same string followed by NUL
\* characters included.
C34_TrueIffIdenticalStrings ==
    (call.fn = "secureCompare" /\ call.done) =>
       /\ call.ret <=> (/\ call.a.isString
                        /\ call.b.isString
                        /\ call.a.chars = call.b.chars)
       /\ (~call.a.isString \/ ~call.b.isString) => ~call.ret
       /\ Len(call.a.chars) # Len(call.b.chars) => ~call.ret

C34_Witness ==
    /\ call.fn = "secureCompare"
    /\ call.done
    /\ call.a.isString
    /\ call.b.isString
    /\ call.a.chars = <<"a">>
    /\ call.b.chars = <<"a", "U+0000">>
    /\ ~call.ret

----------------------------------------------------------------------------
\* Delivery on its own: every event is a message that passes the filter and
\* gets a generated reply, and the attempts to deliver it fail in every way
\* the HTTP client reports a failure.

SendPayloads ==
    { MessagingPayload(MessagingEvent("message",
          Msg("m1", "hi", NoAttachments), "U1", 1700)) }

SendAIResults == { AIOk(<<"o", "k">>) }

\* the outcomes of one delivery attempt: success; no response (timeout of
\* the socket, timeout of the client, an error without a message); an
\* error response with and without a message of the platform
SendAttemptResults ==
    { SendOk("mid.1", Undefined),
      SendError(FALSE, 0, "ETIMEDOUT", Undefined, "Network timeout"),
      SendError(FALSE, 0, "ECONNABORTED", Undefined,
                "timeout of 5000ms exceeded"),
      SendError(FALSE, 0, Undefined, Undefined, ""),
      SendError(TRUE, 400, "ERR_BAD_REQUEST", "Invalid recipient ID",
                "Request failed with status code 400"),
      SendError(TRUE, 500, "ERR_BAD_RESPONSE", Undefined,
                "Request failed with status code 500"),
      SendError(TRUE, 503, "ERR_BAD_RESPONSE",
                "Service temporarily unavailable",
                "Request failed with status code 503") }

InitSend ==
    /\ parserModule = "dual"
    /\ call = NoCall
    /\ NoRequests

NextSend ==
    \/ \E e \in Events, body \in SendPayloads : handleWebhook(e, body)
    \/ \E e \in Events : processWebhookEvent(e)
    \/ \E e \in Events, r \in SendAIResults : generateResponseSettles(e, r)
    \/ \E e \in Events, r \in SendAttemptResults : sendMessageSettles(e, r)

SpecSend == InitSend /\ [][NextSend]_vars

\* a failed attempt that was answered with an error status outside 4xx and
\* has no timeout or abort code
ServerErrorResponse(r) ==
    /\ r.kind = "error"
    /\ r.hasResponse
    /\ r.status \notin 400..499
    /\ r.code \notin {"ECONNABORTED", "ETIMEDOUT"}

\* a failed attempt without a response, or with a timeout or abort code
Retryable(r) ==
    /\ r.kind = "error"
    /\ ~r.hasResponse \/ r.code \in {"ECONNABORTED", "ETIMEDOUT"}

\* C35: a failed attempt that got a response with a non-4xx error status and
\* has no timeout or abort code is not retried: sendMessage returns the
\* failure outcome, after exactly one attempt when the attempt is the first;
\* a second attempt is made only after a failure without a response (or
\* with code ECONNABORTED or ETIMEDOUT).
C35_NoRetryOnServerError ==
    \A e \in Events :
      /\ \A i \in 1..Len(posts[e]) :
           ServerErrorResponse(posts[e][i]) =>
             /\ i = Len(posts[e])
             /\ Attempts(e) = i
             /\ pc[e] = "done"
             /\ result[e].settled /\ ~result[e].success
             /\ outcome[e] = "delivery-failed"
      /\ Attempts(e) = 2 => Retryable(posts[e][1])

\* a first attempt answered 503, and nothing after it
C35_Witness ==
    \E e \in Events :
      /\ Len(posts[e]) = 1
      /\ posts[e][1].status = 503
      /\ Attempts(e) = 1
      /\ pc[e] = "done"
      /\ ~result[e].success

\* C38: the failure outcome of sendMessage describes the error by the
\* message of the platform's error response when there is one, otherwise by
\* the transport error's message, otherwise by 'Unknown error'; after two
\* failed attempts the description is that of the second.
C38_FailureDescription ==
    \A e \in Events :
      (result[e].settled /\ ~result[e].success) =>
        /\ posts[e] # <<>>
        /\ LET last == posts[e][Len(posts[e])] IN
           /\ last.kind = "error"
           /\ NonEmpty(last.apiMessage) => result[e].error = last.apiMessage
           /\ (~NonEmpty(last.apiMessage) /\ NonEmpty(last.message)) =>
                result[e].error = last.message
           /\ (~NonEmpty(last.apiMessage) /\ ~NonEmpty(last.message)) =>
                result[e].error = "Unknown error"

\* two attempts that failed with different messages, and for another event
\* a failure that has no message at all
C38_Witness ==
    \E e1, e2 \in Events :
      /\ Len(posts[e1]) = 2
      /\ posts[e1][1].message = "Network timeout"
      /\ posts[e1][2].apiMessage = "Invalid recipient ID"
      /\ result[e1] = SendFailure("Invalid recipient ID")
      /\ Len(posts[e2]) = 2
      /\ result[e2] = SendFailure("Unknown error")

----------------------------------------------------------------------------
\* Batches: bodies with several entries, or several elements in the first
\* entry's list, whose first message is good, empty, without text or not a
\* message, and whose later messages are good.

TextEvent(mid, text) ==
    MessagingEvent("message", Msg(mid, text, NoAttachments), "U1", 1700)

TextChange(mid, text) ==
    Change("messages", TRUE, TRUE, Msg(mid, text, NoAttachments), "U1", 1700)

BatchPayloads ==
    { Payload(List(<<Entry(List(<<TextEvent("m1", "hi")>>), NoList),
                     Entry(List(<<TextEvent("m2", "yo")>>), NoList)>>)),
      Payload(List(<<Entry(List(<<TextEvent("m1", "hi"),
                                  TextEvent("m2", "yo")>>), NoList)>>)),
      Payload(List(<<Entry(List(<<TextEvent("m1", ""),
                                  TextEvent("m2", "yo")>>), NoList)>>)),
      Payload(List(<<Entry(List(<<TextEvent("m1", Undefined)>>), NoList),
                     Entry(List(<<TextEvent("m2", "yo")>>), NoList)>>)),
      Payload(List(<<Entry(List(<<MessagingEvent("read", NoMsg, "U1", 1700),
                                  TextEvent("m2", "yo")>>), NoList)>>)),
      Payload(List(<<Entry(NoList, List(<<TextChange("m1", "hi"),
                                          TextChange("m2", "yo")>>))>>)) }

BatchAIResults == { AIOk(<<"o", "k">>), AIError(0) }

BatchSendResults ==
    { SendOk("mid.1", Undefined),
      SendError(TRUE, 400, "ERR_BAD_REQUEST", "Invalid recipient ID",
                "Request failed with status code 400") }

InitBatch ==
    /\ parserModule \in ParserModules
    /\ call = NoCall
    /\ NoRequests

NextBatch ==
    \/ \E e \in Events, body \in BatchPayloads : handleWebhook(e, body)
    \/ \E e \in Events : processWebhookEvent(e)
    \/ \E e \in Events, r \in BatchAIResults : generateResponseSettles(e, r)
    \/ \E e \in Events, r \in BatchSendResults : sendMessageSettles(e, r)

SpecBatch == InitBatch /\ [][NextBatch]_vars

\* a list cut down to its first element
FirstOf(list) ==
    IF EmptyOrMissing(list) THEN list ELSE List(<<list.items[1]>>)

\* an envelope cut down to its first entry, and that entry's lists to their
\* first elements
FirstOnly(p) ==
    IF p.isNull \/ EmptyOrMissing(p.entry) THEN p
    ELSE LET en == p.entry.items[1] IN
         IF en.isNull THEN Payload(List(<<en>>))
         ELSE Payload(List(<<Entry(FirstOf(en.messaging),
                                   FirstOf(en.changes))>>))

\* C33: the parse result depends only on the first entry of the envelope
\* and on the first element of that entry's messaging or changes list: it
\* is the result for the envelope cut down to them, whatever follows; and a
\* webhook call makes at most one generator call and one sendMessage call,
\* however many messages its batch holds.
C33_FirstOnly ==
    \A e \in Events :
      /\ Started(e) =>
           /\ parsed[e] = Parse(parserModule, FirstOnly(payload[e]))
           /\ parsed[e].valid =>
                parsed[e].messageId = Selected(payload[e]).msg.mid
      /\ Len(genArgs[e]) <= 1
      /\ Len(sendArgs[e]) <= 1
      /\ Count(trace[e], "generateResponse") <= 1
      /\ Count(trace[e], "sendMessage") <= 1

\* a body with two good messages was answered once, for the first of them
C33_Witness ==
    \E e \in Events :
      /\ pc[e] = "done"
      /\ Len(payload[e].entry.items) = 2
      /\ parsed[e].valid
      /\ parsed[e].messageId = "m1"
      /\ genArgs[e] = <<"hi">>
      /\ Len(sendArgs[e]) = 1
      /\ outcome[e] = "delivered"

\* C36: the generator is never called with an absent or empty text: the
\* text of every generateResponse call of an event is the non-empty string
\* that the event's message carries.
C36_GeneratorGetsText ==
    \A e \in Events :
      \A i \in 1..Len(genArgs[e]) :
        /\ genArgs[e][i] \notin {Undefined, Null, ""}
        /\ HasSelected(payload[e])
        /\ genArgs[e][i] = Selected(payload[e]).msg.text

\* one event with a text was passed to the generator, and the runs of one
\* with an empty text and of one without text ended without a call
C36_Witness ==
    \E e1, e2 \in Events :
      /\ genArgs[e1] = <<"hi">>
      /\ pc[e2] = "done"
      /\ HasSelected(payload[e2])
      /\ Selected(payload[e2]).msg.text = ""
      /\ Selected(payload[e2]).msg.mid = "m1"
      /\ outcome[e2] = "filtered"
      /\ genArgs[e2] = <<>>

====
